---- MODULE Spec2Model ----
(***************************************************************************)
(* A model of the window-management and animation core of fht-compositor:  *)
(*   shell/mod.rs            focus_target_under, map_window,               *)
(*                           unconstrain_popup, handle_move_request         *)
(*   utils/animation/mod.rs  Animation                                      *)
(*   config/types/rules.rs   WindowRulePattern::matches                     *)
(* Rust's Option<T> is a sequence of length 0 (None) or 1 (Some).  Indices  *)
(* into Rust vectors keep their 0-based values; TLA+ sequences are 1-based, *)
(* so element i of a vector is s[i + 1].                                    *)
(***************************************************************************)
EXTENDS Integers, Sequences, FiniteSets, TLC

\* ------------------------------------------------------------------ bounds
MaxWindows == 3
MaxOutputs == 2
MaxWorkspaces == 2

Windows == 1..MaxWindows
Outputs == 1..MaxOutputs
WorkspaceIdxs == 0..(MaxWorkspaces - 1)

VARIABLES
    pending_windows,  \* Fht::pending_windows: Vec<(FhtWindow, Output)>
    wsets,            \* per output: the WorkspaceSet (active index, workspaces)
    focus_state,      \* Fht::focus_state: [output, focus_target]
    focus_new_windows,\* CONFIG.general.focus_new_windows
    window_flags,     \* per window: the toplevel's tiled/fullscreen/maximized
    window_geometry,  \* per window: FhtWindow::global_geometry
    layer_maps,       \* per output: the layer map, a surface's geometry per layer
    popup,            \* the xdg popup handed to unconstrain_popup
    pointer,          \* Fht::pointer: the active grab and the pointer location
    configures,       \* per window: configure events sent to its toplevel
    window_surface,   \* per window: wl_surface(), as Option<the owning client>
    animation,        \* Option<Animation>: the animation constructed, if any
    new_args,         \* the arguments Animation::new was last called with
    clock,            \* CLOCK_MONOTONIC, in ticks
    panicked,         \* a Rust panic (failed assert!, unwrap on None) happened
    last_call         \* the operation that ran last, its arguments and result

vars == <<pending_windows, wsets, focus_state, focus_new_windows, window_flags,
          window_geometry, layer_maps, popup, pointer, configures, window_surface,
          animation, new_args, clock, panicked, last_call>>

\* What the workspace operations leave alone
input_vars == <<window_geometry, layer_maps, popup, pointer, configures,
                window_surface>>
anim_vars == <<animation, new_args, clock>>
\* What the animation and rule operations leave alone
shell_vars == <<pending_windows, wsets, focus_state, focus_new_windows, window_flags,
                window_geometry, layer_maps, popup, pointer, configures,
                window_surface>>

\* ------------------------------------------------------------------ helpers
None == <<>>
Some(x) == <<x>>
IsSome(o) == Len(o) = 1
Unwrap(o) == o[1]

Min(a, b) == IF a <= b THEN a ELSE b
Max(a, b) == IF a >= b THEN a ELSE b

\* Ord::clamp on usize / i32
Clamp(v, lo, hi) == IF v < lo THEN lo ELSE IF v > hi THEN hi ELSE v

\* usize::saturating_sub
SaturatingSub(a, b) == IF a >= b THEN a - b ELSE 0

SeqRange(s) == {s[i] : i \in 1..Len(s)}

\* Vec::insert(index, element), index <= len
VecInsert(s, index, x) ==
    SubSeq(s, 1, index) \o <<x>> \o SubSeq(s, index + 1, Len(s))

\* Vec::remove(index)
VecRemove(s, index) ==
    SubSeq(s, 1, index) \o SubSeq(s, index + 2, Len(s))

\* ------------------------------------------------------------------ geometry
\* smithay::utils::Point and Rectangle (loc + size)
Point(x, y) == [x |-> x, y |-> y]
Rect(x, y, w, h) == [x |-> x, y |-> y, w |-> w, h |-> h]
Loc(r) == Point(r.x, r.y)
PointAdd(p, q) == Point(p.x + q.x, p.y + q.y)

\* Rectangle::contains(point): the right and bottom edges are outside
Contains(r, p) ==
    /\ r.x <= p.x /\ p.x < r.x + r.w
    /\ r.y <= p.y /\ p.y < r.y + r.h

\* Output::geometry: the outputs stand side by side, each 1920x1080
OutputGeometry(o) == Rect((o - 1) * 1920, 0, 1920, 1080)

\* wlr_layer::Layer
Layers == {"Overlay", "Top", "Bottom", "Background"}

\* A layer map with no surface on any layer
NoLayers == [l \in Layers |-> None]

\* A popup with no resolvable root, as first configured: `positioner` is the
\* geometry its positioner asks for, `geometry` the pending state's geometry and
\* `target` the rectangle last handed to the positioner
NoPopup ==
    [root |-> None, toplevel_coords |-> Point(0, 0),
     positioner |-> Rect(0, 0, 0, 0), geometry |-> Rect(0, 0, 0, 0), target |-> None]

\* ------------------------------------------------------------------ shell state
EmptyWorkspace == [windows |-> <<>>, fullscreen |-> None]

FocusWindow(w) == [kind |-> "window", id |-> w]

WindowMapSettings ==
    [floating |-> FALSE, fullscreen |-> FALSE, output |-> None, workspace |-> None]

\* WorkspaceSet::active / active_mut, as the 1-based position in wset.workspaces
ActiveOf(wset) == wset.workspaces[wset.active_idx + 1]

\* Iterator::position over pending_windows: a 0-based index, or None
PendingPositionFirst(pending, window) ==
    IF pending = <<>> THEN None ELSE Some(0)

PendingPosition(pending, window) ==
    LET hits == {i \in 1..Len(pending) : pending[i][1] = window}
    IN  IF hits = {} THEN None
        ELSE Some((CHOOSE i \in hits : \A j \in hits : i <= j) - 1)

InPending(window) == \E i \in 1..Len(pending_windows) : pending_windows[i][1] = window

\* Workspace::insert_window: the new window goes to the end of the tiled sequence
insert_window(ws, window) ==
    [ws EXCEPT !.windows = Append(@, window)]

\* map_window, lines 249-256: a fullscreen slot is taken out and its window put
\* back into the tiled sequence
RestoreIdx(last_known_idx, len) ==
    Clamp(last_known_idx, 0, SaturatingSub(len, 1))

RestoreKeepSlot(ws) ==
    IF IsSome(ws.fullscreen)
    THEN LET fs == Unwrap(ws.fullscreen)
             idx == RestoreIdx(fs.last_known_idx, Len(ws.windows))
         IN  [ws EXCEPT !.windows = VecInsert(@, idx, fs.inner)]
    ELSE ws

RestoreFullscreen(ws) ==
    IF IsSome(ws.fullscreen)
    THEN LET fs == Unwrap(ws.fullscreen)
             idx == RestoreIdx(fs.last_known_idx, Len(ws.windows))
         IN  [windows |-> VecInsert(ws.windows, idx, fs.inner), fullscreen |-> None]
    ELSE ws

\* The destination taken to be the first workspace of the set
SelectWorkspaceFirst(workspace, wset) == 1

\* map_window, lines 236-242: the 1-based position of the destination workspace
\* in wset.workspaces, or 0 when the index is out of the vector's range
SelectWorkspace(workspace, wset) ==
    IF IsSome(workspace)
    THEN LET idx == Clamp(Unwrap(workspace), 0, 8)
         IN  IF idx < Len(wset.workspaces) THEN idx + 1 ELSE 0
    ELSE wset.active_idx + 1

\* The new window focused whatever the policy says
FocusAfterMapAlways(window) ==
    [focus_state EXCEPT !.focus_target = Some(FocusWindow(window))]

\* map_window, lines 259-261: the focus state once the window is inserted
FocusAfterMap(window) ==
    IF focus_new_windows
    THEN [focus_state EXCEPT !.focus_target = Some(FocusWindow(window))]
    ELSE focus_state

\* Fht::map_window, lines 202-261, for the placement settings of lines 209-214
map_window_with(window, dummy_settings) ==
    LET found == PendingPosition(pending_windows, window) IN
    IF ~IsSome(found)
    THEN /\ last_call' = [op |-> "map_window", window |-> window, found |-> FALSE]
         /\ UNCHANGED <<pending_windows, wsets, focus_state, focus_new_windows,
                        window_flags, panicked, input_vars, anim_vars>>
    ELSE LET idx == Unwrap(found)
             output == pending_windows[idx + 1][2]
             wset == wsets[output]
             pos == SelectWorkspace(dummy_settings.workspace, wset)
         IN  /\ pending_windows' = VecRemove(pending_windows, idx)
             /\ window_flags' = [window_flags EXCEPT
                    ![window].tiled = ~dummy_settings.floating,
                    ![window].fullscreen = dummy_settings.fullscreen]
             /\ IF pos = 0
                THEN /\ panicked' = TRUE
                     /\ UNCHANGED <<wsets, focus_state>>
                ELSE /\ wsets' = [wsets EXCEPT ![output].workspaces[pos] =
                            insert_window(RestoreFullscreen(@), window)]
                     /\ focus_state' = FocusAfterMap(window)
                     /\ UNCHANGED panicked
             /\ last_call' = [op |-> "map_window", window |-> window, found |-> TRUE,
                               restored |-> IF pos = 0 THEN None
                                            ELSE wset.workspaces[pos].fullscreen]
             /\ UNCHANGED <<focus_new_windows, input_vars, anim_vars>>

\* Fht::map_window: the settings are the defaults, which name no workspace
map_window(window) == map_window_with(window, WindowMapSettings)

\* Workspace fullscreening: a tiled window leaves the tiled sequence for the
\* workspace's fullscreen slot, which remembers the index it had
fullscreen_window(o, i, window) ==
    LET ws == wsets[o].workspaces[i + 1]
        hits == {k \in 1..Len(ws.windows) : ws.windows[k] = window}
    IN  /\ ~panicked
        /\ ~IsSome(ws.fullscreen)
        /\ hits # {}
        /\ LET k == CHOOSE k \in hits : TRUE
           IN  wsets' = [wsets EXCEPT ![o].workspaces[i + 1] =
                   [windows |-> VecRemove(ws.windows, k - 1),
                    fullscreen |-> Some([inner |-> window, last_known_idx |-> k - 1])]]
        /\ last_call' = [op |-> "fullscreen_window", window |-> window]
        /\ UNCHANGED <<pending_windows, focus_state, focus_new_windows,
                       window_flags, panicked, input_vars, anim_vars>>

\* ------------------------------------------------------------------ focus_target_under
FocusLayer(o, layer) == [kind |-> "layer", output |-> o, layer |-> layer]

\* LayerMap::layer_under(layer, point): the surface of that layer of the output's
\* layer map whose geometry holds the point, if any
layer_under(o, layer, point) ==
    IF IsSome(layer_maps[o][layer]) /\ Contains(Unwrap(layer_maps[o][layer]), point)
    THEN Some(layer)
    ELSE None

\* LayerMap::layer_geometry(layer).unwrap().loc
layer_loc(o, layer) == Loc(Unwrap(layer_maps[o][layer]))

\* The target for a layer surface: (layer.into(), output_geometry.loc + layer_loc)
LayerTarget(o, layer) ==
    [target |-> FocusLayer(o, layer),
     loc |-> PointAdd(Loc(OutputGeometry(o)), layer_loc(o, layer))]

\* Workspace::window_under(point): the topmost tiled window whose geometry holds
\* the point, the front of the sequence being topmost, with the window's location
window_under(ws, point) ==
    LET hits == {k \in 1..Len(ws.windows) :
                    Contains(window_geometry[ws.windows[k]], point)}
    IN  IF hits = {} THEN None
        ELSE LET k == CHOOSE k \in hits : \A j \in hits : k <= j
             IN  Some([window |-> ws.windows[k],
                       loc |-> Loc(window_geometry[ws.windows[k]])])

\* focus_target_under with the top layer looked up before the fullscreen window
FocusTargetUnderTopFirst(point) ==
    IF ~IsSome(focus_state.output) THEN None
    ELSE LET output == Unwrap(focus_state.output)
             active_ws == ActiveOf(wsets[output])
         IN  IF IsSome(layer_under(output, "Overlay", point))
             THEN Some(LayerTarget(output, "Overlay"))
             ELSE IF IsSome(layer_under(output, "Top", point))
             THEN Some(LayerTarget(output, "Top"))
             ELSE IF IsSome(active_ws.fullscreen)
             THEN Some([target |-> FocusWindow(Unwrap(active_ws.fullscreen).inner),
                        loc |-> Loc(OutputGeometry(output))])
             ELSE IF IsSome(window_under(active_ws, point))
             THEN LET hit == Unwrap(window_under(active_ws, point))
                  IN  Some([target |-> FocusWindow(hit.window), loc |-> hit.loc])
             ELSE IF IsSome(layer_under(output, "Bottom", point))
             THEN Some(LayerTarget(output, "Bottom"))
             ELSE IF IsSome(layer_under(output, "Background", point))
             THEN Some(LayerTarget(output, "Background"))
             ELSE None

\* focus_target_under falling back to the first output when none is focused
FocusTargetUnderFirstOutput(point) ==
    LET output == IF IsSome(focus_state.output) THEN Unwrap(focus_state.output) ELSE 1
        active_ws == ActiveOf(wsets[output])
    IN  IF IsSome(layer_under(output, "Overlay", point))
        THEN Some(LayerTarget(output, "Overlay"))
        ELSE IF IsSome(active_ws.fullscreen)
        THEN Some([target |-> FocusWindow(Unwrap(active_ws.fullscreen).inner),
                   loc |-> Loc(OutputGeometry(output))])
        ELSE IF IsSome(layer_under(output, "Top", point))
        THEN Some(LayerTarget(output, "Top"))
        ELSE IF IsSome(window_under(active_ws, point))
        THEN LET hit == Unwrap(window_under(active_ws, point))
             IN  Some([target |-> FocusWindow(hit.window), loc |-> hit.loc])
        ELSE IF IsSome(layer_under(output, "Bottom", point))
        THEN Some(LayerTarget(output, "Bottom"))
        ELSE IF IsSome(layer_under(output, "Background", point))
        THEN Some(LayerTarget(output, "Background"))
        ELSE None

\* Fht::focus_target_under, lines 45-73
FocusTargetUnder(point) ==
    IF ~IsSome(focus_state.output) THEN None
    ELSE LET output == Unwrap(focus_state.output)
             active_ws == ActiveOf(wsets[output])
         IN  IF IsSome(layer_under(output, "Overlay", point))
             THEN Some(LayerTarget(output, "Overlay"))
             ELSE IF IsSome(active_ws.fullscreen)
             THEN Some([target |-> FocusWindow(Unwrap(active_ws.fullscreen).inner),
                        loc |-> Loc(OutputGeometry(output))])
             ELSE IF IsSome(layer_under(output, "Top", point))
             THEN Some(LayerTarget(output, "Top"))
             ELSE IF IsSome(window_under(active_ws, point))
             THEN LET hit == Unwrap(window_under(active_ws, point))
                  IN  Some([target |-> FocusWindow(hit.window), loc |-> hit.loc])
             ELSE IF IsSome(layer_under(output, "Bottom", point))
             THEN Some(LayerTarget(output, "Bottom"))
             ELSE IF IsSome(layer_under(output, "Background", point))
             THEN Some(LayerTarget(output, "Background"))
             ELSE None

\* A call of focus_target_under: it reads the state (&self) and returns
focus_target_under(point) ==
    /\ last_call' = [op |-> "focus_target_under", point |-> point,
                     under |-> FocusTargetUnder(point)]
    /\ UNCHANGED <<shell_vars, anim_vars, panicked>>

\* ------------------------------------------------------------------ unconstrain_popup
\* Rectangle::intersection(other).is_some()
Intersects(a, b) ==
    /\ a.x < b.x + b.w /\ b.x < a.x + a.w
    /\ a.y < b.y + b.h /\ b.y < a.y + a.h

\* Rectangle::merge: the bounding box of both
Merge(a, b) ==
    LET x1 == Min(a.x, b.x)
        y1 == Min(a.y, b.y)
        x2 == Max(a.x + a.w, b.x + b.w)
        y2 == Max(a.y + a.h, b.y + b.h)
    IN  Rect(x1, y1, x2 - x1, y2 - y1)

\* find_window taking every surface for a mapped window's
FindWindowAny(root) == Some(root)

\* Fht::find_window: the window owning the surface, looked up in every workspace
\* (tiled sequences and fullscreen slots)
find_window(root) ==
    IF \E o \in Outputs, i \in 1..MaxWorkspaces :
           LET ws == wsets[o].workspaces[i]
           IN  \/ \E k \in 1..Len(ws.windows) : ws.windows[k] = root
               \/ (IsSome(ws.fullscreen) /\ Unwrap(ws.fullscreen).inner = root)
    THEN Some(root)
    ELSE None

\* Fht::visible_outputs_for_window: the outputs, in their order, whose geometry
\* intersects the window's
RECURSIVE OutputsFrom(_, _)
OutputsFrom(o, window_geo) ==
    IF o > MaxOutputs THEN <<>>
    ELSE (IF Intersects(OutputGeometry(o), window_geo) THEN <<o>> ELSE <<>>)
             \o OutputsFrom(o + 1, window_geo)

visible_outputs_for_window(window) == OutputsFrom(1, window_geometry[window])

\* The for loop of lines 282-284 over what is left of the iterator
RECURSIVE MergeOutputs(_, _)
MergeOutputs(outputs_geo, rest) ==
    IF rest = <<>> THEN outputs_geo
    ELSE MergeOutputs(Merge(outputs_geo, OutputGeometry(Head(rest))), Tail(rest))

\* PositionerState::get_unconstrained_geometry, for a positioner that slides: the
\* asked geometry moved back inside the target along each axis
Slide(lo, len, tlo, tlen) ==
    IF lo + len > tlo + tlen THEN Max(tlo, tlo + tlen - len)
    ELSE IF lo < tlo THEN tlo
    ELSE lo

get_unconstrained_geometry(positioner, target) ==
    Rect(Slide(positioner.x, positioner.w, target.x, target.w),
         Slide(positioner.y, positioner.h, target.y, target.h),
         positioner.w, positioner.h)

\* Lines 276-290: the first next() (line 277) takes the first output off the
\* iterator, the second next() (line 281) unwraps the one after it, the loop merges
\* the rest; then the popup's offset and the window's origin are subtracted
PopupTarget(window) ==
    LET outputs_for_window == visible_outputs_for_window(window)
        after_first == Tail(outputs_for_window)
        outputs_geo == MergeOutputs(OutputGeometry(Head(after_first)),
                                    Tail(after_first))
    IN  IF outputs_for_window = <<>> THEN [result |-> "return"]
        ELSE IF after_first = <<>> THEN [result |-> "panic"]
        ELSE [result |-> "target",
              target |-> Rect(outputs_geo.x - popup.toplevel_coords.x
                                  - window_geometry[window].x,
                              outputs_geo.y - popup.toplevel_coords.y
                                  - window_geometry[window].y,
                              outputs_geo.w, outputs_geo.h)]

\* Fht::unconstrain_popup
unconstrain_popup ==
    LET window == IF IsSome(popup.root) THEN find_window(Unwrap(popup.root)) ELSE None
        computed == IF IsSome(window) THEN PopupTarget(Unwrap(window))
                    ELSE [result |-> "return"]
    IN  /\ ~panicked
        /\ last_call' = [op |-> "unconstrain_popup", window |-> window,
                         result |-> computed.result]
        /\ IF computed.result = "target"
           THEN /\ popup' = [popup EXCEPT
                        !.target = Some(computed.target),
                        !.geometry = get_unconstrained_geometry(popup.positioner,
                                                                computed.target)]
                /\ UNCHANGED panicked
           ELSE /\ panicked' = (computed.result = "panic")
                /\ UNCHANGED popup
        /\ UNCHANGED <<pending_windows, wsets, focus_state, focus_new_windows,
                       window_flags, window_geometry, layer_maps, pointer,
                       configures, window_surface, anim_vars>>

\* ------------------------------------------------------------------ handle_move_request
\* PointerHandle::has_grab(serial): a grab is active and was started with this serial
has_grab(serial) ==
    IsSome(pointer.grab) /\ Unwrap(pointer.grab).serial = serial

\* PointerHandle::grab_start_data: the active grab's start data, if it has any
grab_start_data ==
    IF IsSome(pointer.grab) THEN Unwrap(pointer.grab).start_data ELSE None

\* f64 as i32: the fraction is dropped, towards zero; a coordinate of the pointer
\* is kept in half pixels
AsI32(halves) == IF halves >= 0 THEN halves \div 2 ELSE -((-halves) \div 2)

\* Lines 309-329 without the check of the serial
MoveRequestAcceptedAnySerial(window, serial) ==
    /\ IsSome(pointer.grab)
    /\ IsSome(grab_start_data)
    /\ IsSome(window_surface[window])
    /\ IsSome(Unwrap(grab_start_data).focus)
    /\ Unwrap(Unwrap(grab_start_data).focus) = Unwrap(window_surface[window])

\* Lines 309-329: whether the request gets past every early return
MoveRequestAccepted(window, serial) ==
    /\ has_grab(serial)
    /\ IsSome(grab_start_data)
    /\ IsSome(window_surface[window])
    /\ IsSome(Unwrap(grab_start_data).focus)
    /\ Unwrap(Unwrap(grab_start_data).focus) = Unwrap(window_surface[window])

\* The test of line 337 looking at the maximized state only
NeedsUnsetMaximizedOnly(is_maximized, is_fullscreen) == is_maximized

\* Line 337: whether the window is taken out of its maximized/fullscreen state
NeedsUnset(is_maximized, is_fullscreen) == is_maximized \/ is_fullscreen

\* The anchor left at the window's origin whatever its state
InitialWindowLocationOfGeometry(window) == Loc(window_geometry[window])

\* Lines 331-353: the anchor of the grab
InitialWindowLocation(window) ==
    IF NeedsUnset(window_flags[window].maximized, window_flags[window].fullscreen)
    THEN Point(AsI32(pointer.location.x), AsI32(pointer.location.y))
    ELSE Loc(window_geometry[window])

\* State::handle_move_request
handle_move_request(window, serial) ==
    /\ ~panicked
    /\ IF ~MoveRequestAccepted(window, serial)
       THEN /\ last_call' = [op |-> "handle_move_request", window |-> window,
                             serial |-> serial, accepted |-> FALSE]
            /\ UNCHANGED <<window_flags, configures, pointer>>
       ELSE LET start_data == Unwrap(grab_start_data)
                is_maximized == window_flags[window].maximized
                is_fullscreen == window_flags[window].fullscreen
            IN  /\ window_flags' = [window_flags EXCEPT
                       ![window].maximized =
                           IF NeedsUnset(is_maximized, is_fullscreen) THEN FALSE ELSE @,
                       ![window].fullscreen = FALSE]
                /\ configures' = [configures EXCEPT ![window] =
                       IF NeedsUnset(is_maximized, is_fullscreen) THEN @ + 1 ELSE @]
                /\ pointer' = [pointer EXCEPT !.grab =
                       Some([kind |-> "move", serial |-> serial,
                             start_data |-> Some(start_data), window |-> Some(window),
                             initial_window_location |->
                                 Some(InitialWindowLocation(window))])]
                /\ last_call' = [op |-> "handle_move_request", window |-> window,
                                 serial |-> serial, accepted |-> TRUE,
                                 was_maximized |-> is_maximized,
                                 was_fullscreen |-> is_fullscreen]
    /\ UNCHANGED <<pending_windows, wsets, focus_state, focus_new_windows,
                   window_geometry, layer_maps, popup, window_surface, anim_vars,
                   panicked>>

\* ------------------------------------------------------------------ Animation
\* An f64 is kept as a whole number of 1/Scale units, or is NaN
Scale == 4
F64(v) == [nan |-> FALSE, num |-> v]
NaN == [nan |-> TRUE, num |-> 0]

\* Time::elapsed(elder, later): the time from elder to later, zero when later is
\* the earlier of the two
Elapsed(elder, later) == IF later >= elder THEN later - elder ELSE 0

\* (elapsed / total).clamp(0., 1.): progress in 1/Scale units; 0/0 is NaN and stays
\* NaN through clamp, x/0 is +inf and clamps to 1
Progress(elapsed, total) ==
    IF total = 0
    THEN (IF elapsed = 0 THEN NaN ELSE F64(Scale))
    ELSE F64(Clamp((elapsed * Scale) \div total, 0, Scale))

\* AnimationCurve::Simple: the easing function's y(x), x in [0, 1]; a linear one
\* and one that overshoots before it comes back to 1
EasingY(easing, x) ==
    IF easing = "Linear" THEN x
    ELSE IF x = 0 THEN 0
    ELSE IF x < Scale THEN Scale + 1
    ELSE Scale

\* AnimationCurve::Cubic: the bezier's y(x), x in [0, 1], for an ease-out curve
CubicY(cubic, x) == Min(2 * x, Scale)

\* Spring::duration: the time the spring takes to settle
SpringDuration(spring) == spring.period * spring.cycles

\* Spring::oscillate(t): the spring's position at t; it swings past 1, through 1
\* and below 1 until it has settled
SpringOscillate(spring, t) ==
    IF t = 0 THEN 0
    ELSE IF t >= SpringDuration(spring) THEN Scale
    ELSE LET k == ((t - 1) \div spring.period) % 3
         IN  IF k = 0 THEN Scale + 1 ELSE IF k = 1 THEN Scale ELSE Scale - 1

\* The assertion of lines 27-30 left out
StartEqualsEndTolerated(start, end) == FALSE

\* Animation::new, lines 27-30: whether the assertion fails
StartEqualsEnd(start, end) == start = end

\* Animation::new with the caller's duration kept for every curve
DurationAsSupplied(curve, duration) == duration

\* Animation::new, lines 40-43: the duration the animation gets
EffectiveDuration(curve, duration) ==
    IF curve.kind = "Spring" THEN SpringDuration(curve.spring) ELSE duration

\* Animation::new, for the one animation followed here
AnimationNew(start, end, curve, duration) ==
    /\ ~panicked
    /\ new_args = None
    /\ new_args' = Some([start |-> start, end |-> end, curve |-> curve,
                         duration |-> duration])
    /\ IF StartEqualsEnd(start, end)
       THEN /\ panicked' = TRUE
            /\ UNCHANGED animation
       ELSE /\ animation' = Some([start |-> start, end |-> end,
                                  current_value |-> F64(start * Scale),
                                  curve |-> curve,
                                  started_at |-> clock,
                                  current_time |-> clock,
                                  duration |-> EffectiveDuration(curve, duration)])
            /\ UNCHANGED panicked
    /\ last_call' = [op |-> "Animation::new"]
    /\ UNCHANGED <<shell_vars, clock>>

\* y * (end - start) + start, y in 1/Scale units or NaN
Interpolate(y, start, end) ==
    IF y.nan THEN NaN ELSE F64(y.num * (end - start) + start * Scale)

\* Animation::set_current_time, lines 61-82: the new current_value
ValueAt(anim, new_current_time) ==
    LET elapsed == Elapsed(anim.started_at, new_current_time)
        total == anim.duration
        x == Progress(elapsed, total)
    IN  IF anim.curve.kind = "Simple"
        THEN Interpolate(IF x.nan THEN NaN ELSE F64(EasingY(anim.curve.easing, x.num)),
                         anim.start, anim.end)
        ELSE IF anim.curve.kind = "Cubic"
        THEN Interpolate(IF x.nan THEN NaN ELSE F64(CubicY(anim.curve.cubic, x.num)),
                         anim.start, anim.end)
        ELSE Interpolate(F64(SpringOscillate(anim.curve.spring, elapsed)),
                         anim.start, anim.end)

\* is_finished with a strict comparison
IsFinishedStrict(anim) == Elapsed(anim.started_at, anim.current_time) > anim.duration

\* Animation::is_finished
IsFinished(anim) == Elapsed(anim.started_at, anim.current_time) >= anim.duration

\* Animation::value
Value(anim) == anim.current_value

\* Animation::set_current_time, followed by the caller reading is_finished() and
\* value()
set_current_time(new_current_time) ==
    /\ ~panicked
    /\ IsSome(animation)
    /\ animation' = Some([Unwrap(animation) EXCEPT
           !.current_time = new_current_time,
           !.current_value = ValueAt(Unwrap(animation), new_current_time)])
    /\ last_call' = [op |-> "set_current_time", t |-> new_current_time,
                     is_finished |-> IsFinished(Unwrap(animation')),
                     value |-> Value(Unwrap(animation'))]
    /\ UNCHANGED <<shell_vars, new_args, clock, panicked>>

\* ------------------------------------------------------------------ WindowRulePattern
\* matches with the title looked at before the workspace
MatchesTitleFirst(pattern, window, workspace) ==
    IF IsSome(pattern.title) THEN window.title = Unwrap(pattern.title)
    ELSE IF IsSome(pattern.workspace) THEN Unwrap(pattern.workspace) = workspace
    ELSE IF IsSome(pattern.app_id) THEN window.app_id = Unwrap(pattern.app_id)
    ELSE FALSE

\* WindowRulePattern::matches
Matches(pattern, window, workspace) ==
    IF IsSome(pattern.workspace) THEN Unwrap(pattern.workspace) = workspace
    ELSE IF IsSome(pattern.title) THEN window.title = Unwrap(pattern.title)
    ELSE IF IsSome(pattern.app_id) THEN window.app_id = Unwrap(pattern.app_id)
    ELSE FALSE

\* A call of matches: it reads its arguments and returns
matches(pattern, window, workspace) ==
    /\ last_call' = [op |-> "matches", pattern |-> pattern, window |-> window,
                     workspace |-> workspace,
                     result |-> Matches(pattern, window, workspace)]
    /\ UNCHANGED <<shell_vars, anim_vars, panicked>>

\* ------------------------------------------------------------------ specifications
NoCall == [op |-> "none"]

DefaultFlags == [tiled |-> FALSE, fullscreen |-> FALSE, maximized |-> FALSE]

\* The client owning a window's surface
ClientOf(w) == ((w - 1) % 2) + 1

\* No grab is active, no configure was sent, every window has its surface
PointerIdle ==
    /\ pointer = [grab |-> None, location |-> Point(0, 0)]
    /\ configures = [w \in Windows |-> 0]
    /\ window_surface = [w \in Windows |-> Some(ClientOf(w))]

\* No geometry, layer surface, popup, grab or configure plays a part
InputsIdle ==
    /\ window_geometry = [w \in Windows |-> Rect(0, 0, 0, 0)]
    /\ layer_maps = [o \in Outputs |-> NoLayers]
    /\ popup = NoPopup
    /\ PointerIdle

\* No animation has been constructed
AnimationIdle ==
    /\ animation = None
    /\ new_args = None
    /\ clock = 0

\* A WorkspaceSet with every workspace empty and workspace `active` shown
NewWorkspaceSet(active) ==
    [active_idx |-> active, workspaces |-> [i \in 1..MaxWorkspaces |-> EmptyWorkspace]]

\* The shell with every window still pending, each proposed for some output;
\* output o shows workspace (o - 1) mod MaxWorkspaces
InitMap ==
    /\ \E outs \in [Windows -> Outputs] :
           pending_windows = [w \in Windows |-> <<w, outs[w]>>]
    /\ wsets = [o \in Outputs |-> NewWorkspaceSet((o - 1) % MaxWorkspaces)]
    /\ focus_state = [output |-> None, focus_target |-> None]
    /\ focus_new_windows \in BOOLEAN
    /\ window_flags = [w \in Windows |-> DefaultFlags]
    /\ InputsIdle
    /\ AnimationIdle
    /\ panicked = FALSE
    /\ last_call = NoCall

NextMap ==
    \/ \E w \in Windows : ~panicked /\ map_window(w)
    \/ \E o \in Outputs, i \in WorkspaceIdxs, w \in Windows : fullscreen_window(o, i, w)

SpecMap == InitMap /\ [][NextMap]_vars

\* ---- map_window with placement settings that may name a workspace
MaxExplicitIdx == 10
ExplicitIdxs == 0..MaxExplicitIdx

\* The settings a window rule may ask for: the defaults, with or without an
\* explicit workspace index
PlacementSettings ==
    {[WindowMapSettings EXCEPT !.workspace = workspace] :
        workspace \in {None} \cup {Some(k) : k \in ExplicitIdxs}}

NextPlace ==
    \E w \in Windows, settings \in PlacementSettings :
        ~panicked /\ map_window_with(w, settings)

SpecPlace == InitMap /\ [][NextPlace]_vars

\* ---- the shell as focus_target_under may find it
\* The layer surfaces' geometry within their layer map, and the tiled windows'
\* geometry relative to their output's origin
LayerSurfaceGeometry == Rect(0, 0, 300, 300)

TiledGeometry(w) ==
    IF w % 3 = 1 THEN Rect(0, 0, 100, 100)
    ELSE IF w % 3 = 2 THEN Rect(0, 0, 600, 600)
    ELSE Rect(400, 400, 200, 200)

\* The output a window of the focus scenarios belongs to
HomeOutput(w) == ((w - 1) % MaxOutputs) + 1

\* The points asked about: inside the layer surfaces and the first two kinds of
\* window, inside the last two kinds of window only, and outside everything; each
\* relative to every output's origin
FocusPoints ==
    {PointAdd(Loc(OutputGeometry(o)), q) :
        o \in Outputs, q \in {Point(50, 50), Point(500, 500), Point(1500, 900)}}

\* The ascending (or descending) sequence of a set of windows
RECURSIVE SortedSeq(_, _)
SortedSeq(S, descending) ==
    IF S = {} THEN <<>>
    ELSE LET w == IF descending
                  THEN CHOOSE x \in S : \A y \in S : x >= y
                  ELSE CHOOSE x \in S : \A y \in S : x <= y
         IN  <<w>> \o SortedSeq(S \ {w}, descending)

\* A workspace set whose active workspace holds the given windows
PlacedWorkspaceSet(o, tiled, fullscreen, descending) ==
    LET active == (o - 1) % MaxWorkspaces IN
    [active_idx |-> active,
     workspaces |-> [i \in 1..MaxWorkspaces |->
        IF i = active + 1
        THEN [windows |-> SortedSeq(tiled, descending),
              fullscreen |-> IF fullscreen = {} THEN None
                             ELSE Some([inner |-> CHOOSE w \in fullscreen : TRUE,
                                        last_known_idx |-> 0])]
        ELSE EmptyWorkspace]]

\* Every window is pending, tiled or fullscreen on its home output (one fullscreen
\* window per workspace at most)
PlacedShell ==
    \E place \in [Windows -> {"pending", "tiled", "fullscreen"}],
       descending \in BOOLEAN :
        /\ \A o \in Outputs :
               Cardinality({w \in Windows :
                   HomeOutput(w) = o /\ place[w] = "fullscreen"}) <= 1
        /\ pending_windows =
               LET P == SortedSeq({w \in Windows : place[w] = "pending"}, FALSE)
               IN  [k \in 1..Len(P) |-> <<P[k], HomeOutput(P[k])>>]
        /\ wsets = [o \in Outputs |->
               PlacedWorkspaceSet(o,
                   {w \in Windows : HomeOutput(w) = o /\ place[w] = "tiled"},
                   {w \in Windows : HomeOutput(w) = o /\ place[w] = "fullscreen"},
                   descending)]
        /\ window_flags = [w \in Windows |->
               [tiled |-> place[w] # "pending",
                fullscreen |-> place[w] = "fullscreen",
                maximized |-> FALSE]]

\* The placed shell; the layers holding a surface alternate between neighbouring
\* outputs; any output, or none, is the focused one
InitFocus ==
    /\ PlacedShell
    /\ \E present \in [Layers -> BOOLEAN] :
           layer_maps = [o \in Outputs |-> [l \in Layers |->
               IF present[l] = (o % 2 = 1) THEN Some(LayerSurfaceGeometry) ELSE None]]
    /\ window_geometry = [w \in Windows |->
           LET g == TiledGeometry(w)
               origin == Loc(OutputGeometry(HomeOutput(w)))
           IN  Rect(origin.x + g.x, origin.y + g.y, g.w, g.h)]
    /\ focus_state \in {[output |-> out, focus_target |-> None] :
                           out \in {None} \cup {Some(o) : o \in Outputs}}
    /\ focus_new_windows = TRUE
    /\ popup = NoPopup
    /\ PointerIdle
    /\ AnimationIdle
    /\ panicked = FALSE
    /\ last_call = NoCall

NextFocus == \E point \in FocusPoints : focus_target_under(point)

SpecFocus == InitFocus /\ [][NextFocus]_vars

\* ---- the shell as unconstrain_popup may find it
\* Window geometries: within the first output, across the first two, within the
\* second, across every output from the first on, and outside all of them
PopupWindowGeometries ==
    {Rect(100, 100, 800, 600), Rect(1500, 100, 800, 600), Rect(2000, 100, 800, 600),
     Rect(1500, 100, 1920 * (MaxOutputs - 1), 600), Rect(-3000, -3000, 100, 100)}

\* The placed shell, the windows sharing one of the geometries, and one popup: its
\* root unresolved or some window's surface, at one of two offsets from its
\* toplevel, asking for a place to the right of or within its parent
InitPopup ==
    /\ PlacedShell
    /\ \E g \in PopupWindowGeometries : window_geometry = [w \in Windows |-> g]
    /\ \E root \in {None} \cup {Some(w) : w \in Windows},
          coords \in {Point(0, 0), Point(40, 30)},
          positioner \in {Rect(10, 10, 200, 100), Rect(700, 500, 400, 300)} :
           popup = [root |-> root, toplevel_coords |-> coords,
                    positioner |-> positioner, geometry |-> positioner,
                    target |-> None]
    /\ layer_maps = [o \in Outputs |-> NoLayers]
    /\ focus_state = [output |-> None, focus_target |-> None]
    /\ focus_new_windows = TRUE
    /\ PointerIdle
    /\ AnimationIdle
    /\ panicked = FALSE
    /\ last_call = NoCall

NextPopup == unconstrain_popup

SpecPopup == InitPopup /\ [][NextPopup]_vars

\* ---- the shell as handle_move_request may find it
MaxSerial == 2
Serials == 1..MaxSerial
Clients == {1, 2}

\* The grab a button press starts: its serial and its start data, whose focus is
\* the surface under the pointer, if any, known here by its client
ClickGrabs ==
    {[kind |-> "click", serial |-> serial, start_data |-> start_data,
      window |-> None, initial_window_location |-> None] :
        serial \in Serials,
        start_data \in {None, Some([focus |-> None])}
                           \cup {Some([focus |-> Some(c)]) : c \in Clients}}

\* Every window tiled on its home output; every toplevel in the same
\* maximized/fullscreen state; at most
\* one window without a surface; the pointer at one of three places (in half
\* pixels), with or without a grab
InitMove ==
    /\ \E place \in [Windows -> {"tiled"}] :
        /\ pending_windows = <<>>
        /\ wsets = [o \in Outputs |->
               PlacedWorkspaceSet(o, {w \in Windows : HomeOutput(w) = o}, {}, FALSE)]
    /\ \E maximized \in BOOLEAN, fullscreen \in BOOLEAN :
           window_flags = [w \in Windows |->
               [tiled |-> TRUE, fullscreen |-> fullscreen, maximized |-> maximized]]
    /\ \E dead \in {0} \cup Windows :
           window_surface = [w \in Windows |->
               IF w = dead THEN None ELSE Some(ClientOf(w))]
    /\ \E grab \in {None} \cup {Some(g) : g \in ClickGrabs},
          location \in {Point(21, 41), Point(-21, 3001), Point(4000, 7)} :
           pointer = [grab |-> grab, location |-> location]
    /\ window_geometry = [w \in Windows |->
           LET g == TiledGeometry(w)
               origin == Loc(OutputGeometry(HomeOutput(w)))
           IN  Rect(origin.x + g.x, origin.y + g.y, g.w, g.h)]
    /\ configures = [w \in Windows |-> 0]
    /\ layer_maps = [o \in Outputs |-> NoLayers]
    /\ popup = NoPopup
    /\ focus_state = [output |-> None, focus_target |-> None]
    /\ focus_new_windows = TRUE
    /\ AnimationIdle
    /\ panicked = FALSE
    /\ last_call = NoCall

NextMove == \E w \in Windows, serial \in Serials : handle_move_request(w, serial)

SpecMove == InitMove /\ [][NextMove]_vars

\* ---- animations
MaxTime == 4
MaxDuration == 3
Times == 0..MaxTime
Durations == 0..MaxDuration
AnimationValues == {-1, 0, 2}

Curves ==
    {[kind |-> "Simple", easing |-> e] : e \in {"Linear", "Overshoot"}}
    \cup {[kind |-> "Cubic", cubic |-> "EaseOut"]}
    \cup {[kind |-> "Spring", spring |-> [period |-> p, cycles |-> c]] :
             p \in 1..2, c \in 1..2}

\* The monotonic clock moves on
Tick ==
    /\ ~panicked
    /\ clock < MaxTime
    /\ clock' = clock + 1
    /\ last_call' = [op |-> "tick"]
    /\ UNCHANGED <<shell_vars, animation, new_args, panicked>>

\* No window; no animation yet
InitIdle ==
    /\ pending_windows = <<>>
    /\ wsets = [o \in Outputs |-> NewWorkspaceSet((o - 1) % MaxWorkspaces)]
    /\ focus_state = [output |-> None, focus_target |-> None]
    /\ focus_new_windows = TRUE
    /\ window_flags = [w \in Windows |-> DefaultFlags]
    /\ InputsIdle
    /\ AnimationIdle
    /\ panicked = FALSE
    /\ last_call = NoCall

NextAnimation ==
    \/ Tick
    \/ \E start \in AnimationValues, end \in AnimationValues,
          curve \in Curves, duration \in Durations :
           AnimationNew(start, end, curve, duration)
    \/ \E t \in Times : set_current_time(t)

SpecAnimation == InitIdle /\ [][NextAnimation]_vars

\* ---- window rules
MaxRuleWorkspace == 3
RuleWorkspaces == 0..MaxRuleWorkspace
Titles == {"foo", "bar"}
AppIds == {"term", "web"}

OptionOf(S) == {None} \cup {Some(x) : x \in S}

Patterns ==
    [workspace : OptionOf(RuleWorkspaces), title : OptionOf(Titles),
     app_id : OptionOf(AppIds)]

NextRules ==
    \E pattern \in Patterns, title \in Titles, app_id \in AppIds,
       workspace \in RuleWorkspaces :
        matches(pattern, [title |-> title, app_id |-> app_id], workspace)

SpecRules == InitIdle /\ [][NextRules]_vars

\* ------------------------------------------------------------------ claims: map_window

\* The output a pending window was proposed for
PendingOutput(window) ==
    pending_windows[Unwrap(PendingPosition(pending_windows, window)) + 1][2]

\* Where a window is held: <<output, workspace index, "tiled", position>> for each
\* occurrence in a tiled sequence, <<output, workspace index, "fullscreen", 0>> for
\* each fullscreen slot holding it
Holders(window) ==
    {h \in Outputs \X WorkspaceIdxs \X {"tiled"} \X (1..(2 * MaxWindows)) :
        /\ h[4] <= Len(wsets[h[1]].workspaces[h[2] + 1].windows)
        /\ wsets[h[1]].workspaces[h[2] + 1].windows[h[4]] = window}
    \cup
    {h \in Outputs \X WorkspaceIdxs \X {"fullscreen"} \X {0} :
        LET fs == wsets[h[1]].workspaces[h[2] + 1].fullscreen
        IN  IsSome(fs) /\ Unwrap(fs).inner = window}

\* C1: map_window(w) with w not in the pending list changes neither the pending
\* list, nor any workspace (tiled sequences, fullscreen slots), nor the focus
\* target, and does not abort.
C1_MapAbsentIsNoOp ==
    [][\A w \in Windows :
          (~InPending(w) /\ map_window(w)) =>
              (UNCHANGED <<pending_windows, wsets, focus_state, window_flags>>
               /\ ~panicked')]_vars

\* C1 witness: map_window has just been refused for a window that is not pending,
\* while other windows are pending and a fullscreen slot is occupied.
C1_Witness ==
    /\ last_call.op = "map_window"
    /\ ~last_call.found
    /\ ~InPending(last_call.window)
    /\ pending_windows # <<>>
    /\ \E o \in Outputs : IsSome(ActiveOf(wsets[o]).fullscreen)

\* C2 (as claimed): when map_window inserts w into a workspace whose fullscreen
\* slot holds A with restore index i while the tiled sequence has L windows, then
\* afterwards the slot is empty, A is at index min(i, L) of the tiled sequence and
\* w is the last element.
C2_RestoredAtMinIdxLen ==
    [][\A w \in Windows :
          (InPending(w) /\ map_window(w)) =>
              LET o == PendingOutput(w)
                  before == ActiveOf(wsets[o])
                  after == ActiveOf(wsets'[o])
              IN  IsSome(before.fullscreen) =>
                      LET A == Unwrap(before.fullscreen).inner
                          i == Unwrap(before.fullscreen).last_known_idx
                          L == Len(before.windows)
                      IN  /\ after.fullscreen = None
                          /\ Len(after.windows) = L + 2
                          /\ after.windows[Min(i, L) + 1] = A
                          /\ after.windows[L + 2] = w]_vars

\* C3: every window that is not pending is held by exactly one place (one position
\* of one tiled sequence, or one fullscreen slot), and a pending window by none.
C3_HeldExactlyOnce ==
    \A w \in Windows :
        IF InPending(w) THEN Holders(w) = {} ELSE Cardinality(Holders(w)) = 1

\* C3 witness: map_window has just restored a fullscreen window into the tiled
\* sequence while another workspace still holds a fullscreen slot.
C3_Witness ==
    /\ last_call.op = "map_window"
    /\ last_call.found
    /\ IsSome(last_call.restored)
    /\ \E o \in Outputs : IsSome(ActiveOf(wsets[o]).fullscreen)

\* C17: after map_window(w) for a pending w, the focus target is w if the "focus
\* new windows" policy is enabled, and what it was before the call if not.
C17_FocusFollowsPolicy ==
    [][\A w \in Windows :
          (InPending(w) /\ map_window(w)) =>
              IF focus_new_windows
              THEN focus_state'.focus_target = <<[kind |-> "window", id |-> w]>>
              ELSE focus_state'.focus_target = focus_state.focus_target]_vars

\* C17 witness: with the policy enabled, map_window has just mapped the last
\* pending window, after the others, and the focus target is that window.
C17_Witness ==
    /\ last_call.op = "map_window"
    /\ last_call.found
    /\ focus_new_windows
    /\ pending_windows = <<>>
    /\ focus_state.focus_target = <<[kind |-> "window", id |-> last_call.window]>>
    /\ ~panicked

\* C18: map_window(w) for a pending w takes w out of the pending list, leaving the
\* other entries as they were and in their order, puts w into the tiled sequence of
\* the active workspace of the output w was proposed for, and changes no other
\* workspace and no active index.
C18_MapTransfersWindow ==
    [][\A w \in Windows :
          (InPending(w) /\ map_window(w)) =>
              LET o == PendingOutput(w)
                  IsOther(entry) == entry[1] # w
              IN  /\ pending_windows' = SelectSeq(pending_windows, IsOther)
                  /\ \A i \in 1..Len(pending_windows') : pending_windows'[i][1] # w
                  /\ \E k \in 1..Len(ActiveOf(wsets'[o]).windows) :
                         ActiveOf(wsets'[o]).windows[k] = w
                  /\ \A o2 \in Outputs :
                         /\ wsets'[o2].active_idx = wsets[o2].active_idx
                         /\ \A i \in WorkspaceIdxs :
                                (o2 # o \/ i # wsets[o].active_idx) =>
                                    wsets'[o2].workspaces[i + 1] =
                                        wsets[o2].workspaces[i + 1]]_vars

\* C18 witness: map_window has just put a window into the active workspace of the
\* second output, which is not that output's first workspace, while another window
\* is still pending and the first output's active workspace holds a window.
C18_Witness ==
    /\ last_call.op = "map_window"
    /\ last_call.found
    /\ wsets[2].active_idx # 0
    /\ \E k \in 1..Len(ActiveOf(wsets[2]).windows) :
           ActiveOf(wsets[2]).windows[k] = last_call.window
    /\ pending_windows # <<>>
    /\ ActiveOf(wsets[1]).windows # <<>>

LayerHit(layer, point) ==
    LET lm == layer_maps[Unwrap(focus_state.output)]
    IN  lm[layer] # None /\ Contains(lm[layer][1], point)

\* Whether window k of the focused output's active workspace is the first of the
\* tiled sequence whose geometry holds the point
TopmostTiledHit(k, point) ==
    LET tiled == ActiveOf(wsets[Unwrap(focus_state.output)]).windows
    IN  /\ k \in 1..Len(tiled)
        /\ Contains(window_geometry[tiled[k]], point)
        /\ \A j \in 1..(k - 1) : ~Contains(window_geometry[tiled[j]], point)

\* C4: with a focused output, the result of focus_target_under(point) is the first
\* match of: overlay surface under the point, the active workspace's fullscreen
\* window, top surface under the point, topmost tiled window under the point,
\* bottom surface under the point, background surface under the point; else None.
C4_FocusPrecedence ==
    (last_call.op = "focus_target_under" /\ focus_state.output # None) =>
        LET point == last_call.point
            under == last_call.under
            slot == ActiveOf(wsets[Unwrap(focus_state.output)]).fullscreen
            tiledHit == \E k \in 1..MaxWindows : TopmostTiledHit(k, point)
            IsLayer(layer) ==
                /\ under # None
                /\ under[1].target.kind = "layer"
                /\ under[1].target.layer = layer
                /\ under[1].target.output = Unwrap(focus_state.output)
            IsWindow(w) ==
                /\ under # None
                /\ under[1].target.kind = "window"
                /\ under[1].target.id = w
        IN  /\ LayerHit("Overlay", point) => IsLayer("Overlay")
            /\ (~LayerHit("Overlay", point) /\ slot # None) => IsWindow(slot[1].inner)
            /\ (~LayerHit("Overlay", point) /\ slot = None /\ LayerHit("Top", point))
                   => IsLayer("Top")
            /\ (~LayerHit("Overlay", point) /\ slot = None /\ ~LayerHit("Top", point))
                   => \A k \in 1..MaxWindows :
                          TopmostTiledHit(k, point) =>
                              IsWindow(ActiveOf(wsets[Unwrap(focus_state.output)]).windows[k])
            /\ (~LayerHit("Overlay", point) /\ slot = None /\ ~LayerHit("Top", point)
                    /\ ~tiledHit /\ LayerHit("Bottom", point))
                   => IsLayer("Bottom")
            /\ (~LayerHit("Overlay", point) /\ slot = None /\ ~LayerHit("Top", point)
                    /\ ~tiledHit /\ ~LayerHit("Bottom", point)
                    /\ LayerHit("Background", point))
                   => IsLayer("Background")
            /\ (~LayerHit("Overlay", point) /\ slot = None /\ ~LayerHit("Top", point)
                    /\ ~tiledHit /\ ~LayerHit("Bottom", point)
                    /\ ~LayerHit("Background", point))
                   => under = None

\* C4 witness: an overlay surface, a top surface, a fullscreen window and a tiled
\* window are all under the point asked about, and the overlay surface is returned.
C4_Witness ==
    /\ last_call.op = "focus_target_under"
    /\ focus_state.output # None
    /\ LayerHit("Overlay", last_call.point)
    /\ LayerHit("Top", last_call.point)
    /\ ActiveOf(wsets[Unwrap(focus_state.output)]).fullscreen # None
    /\ \E k \in 1..MaxWindows : TopmostTiledHit(k, last_call.point)
    /\ last_call.under # None
    /\ last_call.under[1].target.kind = "layer"
    /\ last_call.under[1].target.layer = "Overlay"

\* C13: focus_target_under returns None whenever the focus state records no
\* focused output, whatever layer surfaces and windows the outputs hold.
C13_NoFocusedOutputGivesNone ==
    (last_call.op = "focus_target_under" /\ focus_state.output = None) =>
        last_call.under = None

\* C13 witness: focus_target_under has returned None with no focused output for a
\* point that an overlay surface and a tiled window of the first output's active
\* workspace both hold.
C13_Witness ==
    /\ last_call.op = "focus_target_under"
    /\ focus_state.output = None
    /\ last_call.under = None
    /\ layer_maps[1]["Overlay"] # None
    /\ Contains(layer_maps[1]["Overlay"][1], last_call.point)
    /\ \E k \in 1..Len(ActiveOf(wsets[1]).windows) :
           Contains(window_geometry[ActiveOf(wsets[1]).windows[k]], last_call.point)

\* C14: whenever the focused output's active workspace holds a fullscreen slot,
\* focus_target_under(point) returns either the overlay surface under the point or
\* the fullscreen window with the output's origin; never a top, bottom or
\* background surface, a tiled window, or None.
C14_FullscreenShortCircuits ==
    (/\ last_call.op = "focus_target_under"
     /\ focus_state.output # None
     /\ ActiveOf(wsets[focus_state.output[1]]).fullscreen # None) =>
        LET o == focus_state.output[1]
            slot == ActiveOf(wsets[o]).fullscreen[1]
            under == last_call.under
        IN  /\ under # None
            /\ \/ /\ LayerHit("Overlay", last_call.point)
                  /\ under[1].target = [kind |-> "layer", output |-> o,
                                        layer |-> "Overlay"]
               \/ /\ under[1].target = [kind |-> "window", id |-> slot.inner]
                  /\ under[1].loc = [x |-> OutputGeometry(o).x, y |-> OutputGeometry(o).y]

\* C14 witness: with a fullscreen slot, a top surface and a tiled window under the
\* point and no overlay surface there, the fullscreen window has been returned.
C14_Witness ==
    /\ last_call.op = "focus_target_under"
    /\ focus_state.output # None
    /\ ActiveOf(wsets[focus_state.output[1]]).fullscreen # None
    /\ ~LayerHit("Overlay", last_call.point)
    /\ LayerHit("Top", last_call.point)
    /\ \E k \in 1..MaxWindows : TopmostTiledHit(k, last_call.point)
    /\ last_call.under # None
    /\ last_call.under[1].target.kind = "window"

\* ------------------------------------------------------------------ claims: unconstrain_popup

\* The bounding box of the geometries of a non-empty set of outputs
UnionOfOutputs(S) ==
    LET x1 == CHOOSE v \in {OutputGeometry(o).x : o \in S} :
                  \A o \in S : v <= OutputGeometry(o).x
        y1 == CHOOSE v \in {OutputGeometry(o).y : o \in S} :
                  \A o \in S : v <= OutputGeometry(o).y
        x2 == CHOOSE v \in {OutputGeometry(o).x + OutputGeometry(o).w : o \in S} :
                  \A o \in S : v >= OutputGeometry(o).x + OutputGeometry(o).w
        y2 == CHOOSE v \in {OutputGeometry(o).y + OutputGeometry(o).h : o \in S} :
                  \A o \in S : v >= OutputGeometry(o).y + OutputGeometry(o).h
    IN  Rect(x1, y1, x2 - x1, y2 - y1)

\* C5 (as claimed): after unconstrain_popup for a popup whose root window
\* intersects the outputs S, |S| >= 1, the rectangle handed to the positioner is
\* the bounding union of the geometries of all outputs of S, moved by minus the
\* popup's toplevel-relative offset and minus the window's global origin.
C5_TargetIsUnionOfAllOutputs ==
    (last_call.op = "unconstrain_popup" /\ last_call.window # None) =>
        LET window == last_call.window[1]
            S == {o \in Outputs : Intersects(OutputGeometry(o), window_geometry[window])}
            union == UnionOfOutputs(S)
        IN  S # {} =>
                popup.target =
                    Some(Rect(union.x - popup.toplevel_coords.x - window_geometry[window].x,
                              union.y - popup.toplevel_coords.y - window_geometry[window].y,
                              union.w, union.h))

\* The outputs whose geometry the window's global geometry intersects
OutputsOf(window) ==
    {o \in Outputs : Intersects(OutputGeometry(o), window_geometry[window])}

\* C12: unconstrain_popup leaves the popup's pending geometry as it was and does
\* not abort when the popup's root surface cannot be resolved, when the root
\* belongs to no mapped window, or when the root window intersects no output.
C12_UnresolvedPopupIsNoOp ==
    [][(/\ unconstrain_popup
        /\ \/ popup.root = None
           \/ Holders(popup.root[1]) = {}
           \/ OutputsOf(popup.root[1]) = {})
          => (UNCHANGED popup /\ ~panicked')]_vars

\* C12 witness: unconstrain_popup has returned for a popup whose root is a mapped
\* window that intersects no output, the pending geometry still being the one the
\* positioner asked for.
C12_Witness ==
    /\ last_call.op = "unconstrain_popup"
    /\ last_call.result = "return"
    /\ popup.root # None
    /\ Holders(popup.root[1]) # {}
    /\ OutputsOf(popup.root[1]) = {}
    /\ popup.geometry = popup.positioner
    /\ popup.target = None
    /\ ~panicked

\* C20 (as claimed): unconstrain_popup for a popup whose root is a mapped window
\* intersecting n >= 1 outputs, in particular exactly one, does not abort and
\* commits a pending geometry computed from a rectangle of those outputs.
C20_CompletesForAnyOutputCount ==
    [][(/\ unconstrain_popup
        /\ popup.root # None
        /\ Holders(popup.root[1]) # {}
        /\ OutputsOf(popup.root[1]) # {})
          => /\ ~panicked'
             /\ popup'.target # None
             /\ popup'.geometry =
                    get_unconstrained_geometry(popup.positioner, popup'.target[1])]_vars

\* ------------------------------------------------------------------ claims: handle_move_request

\* The request names a serial that is not the active grab's, or the grab has no
\* start data, or the window has no surface, or the grab's focus is absent or of
\* another client than the window's surface
MoveRequestInvalid(window, serial) ==
    \/ pointer.grab = None
    \/ pointer.grab[1].serial # serial
    \/ pointer.grab[1].start_data = None
    \/ window_surface[window] = None
    \/ pointer.grab[1].start_data[1].focus = None
    \/ pointer.grab[1].start_data[1].focus[1] # window_surface[window][1]

\* C6: a handle_move_request that is invalid in one of these ways changes no
\* window's maximized or fullscreen flag, sends no configure and leaves the
\* pointer's grab as it was.
C6_InvalidMoveRequestIsNoOp ==
    [][\A w \in Windows, serial \in Serials :
          (MoveRequestInvalid(w, serial) /\ handle_move_request(w, serial)) =>
              UNCHANGED <<window_flags, configures, pointer>>]_vars

\* C6 witness: a request with a stale serial has just been refused for a window
\* that is maximized or fullscreen and whose client owns the grab's focus.
C6_Witness ==
    /\ last_call.op = "handle_move_request"
    /\ ~last_call.accepted
    /\ pointer.grab # None
    /\ pointer.grab[1].serial # last_call.serial
    /\ pointer.grab[1].start_data # None
    /\ pointer.grab[1].start_data[1].focus = window_surface[last_call.window]
    /\ window_surface[last_call.window] # None
    /\ (window_flags[last_call.window].maximized
            \/ window_flags[last_call.window].fullscreen)

C16_AnchorIsOriginOrPointer ==
    (last_call.op = "handle_move_request" /\ last_call.accepted) =>
        LET w == last_call.window
            anchor == pointer.grab[1].initial_window_location
        IN  IF last_call.was_maximized \/ last_call.was_fullscreen
            THEN anchor = <<[x |-> AsI32(pointer.location.x),
                             y |-> AsI32(pointer.location.y)]>>
            ELSE anchor = <<[x |-> window_geometry[w].x, y |-> window_geometry[w].y]>>

\* C16 witness: a request has just been accepted for a maximized window while the
\* pointer is at (-10.5, 1500.5); the anchor is (-10, 1500), not the window's origin.
C16_Witness ==
    /\ last_call.op = "handle_move_request"
    /\ last_call.accepted
    /\ last_call.was_maximized
    /\ pointer.location = [x |-> -21, y |-> 3001]
    /\ pointer.grab[1].initial_window_location = <<[x |-> -10, y |-> 1500]>>
    /\ window_geometry[last_call.window].x # -10

\* ------------------------------------------------------------------ claims: Animation

\* C7: after set_current_time(t), for every curve kind, is_finished() is true
\* exactly when the time elapsed from the start time to t (zero when t is before
\* it) is at least the animation's duration.
C7_FinishedIffElapsedReachesDuration ==
    (last_call.op = "set_current_time") =>
        LET anim == animation[1]
            elapsed == IF last_call.t > anim.started_at
                       THEN last_call.t - anim.started_at ELSE 0
        IN  last_call.is_finished <=> (elapsed >= anim.duration)

\* C7 witness: set_current_time has left a spring animation at its end value
\* although it is not finished, at a time after the start.
C7_Witness ==
    /\ last_call.op = "set_current_time"
    /\ animation[1].curve.kind = "Spring"
    /\ last_call.t > animation[1].started_at
    /\ ~last_call.is_finished
    /\ last_call.value = [nan |-> FALSE, num |-> animation[1].end * Scale]

\* C8: Animation::new with start = end aborts and produces no animation, for
\* every curve and duration; an animation that exists has start # end.
C8_EqualStartEndRejected ==
    [][/\ \A start \in AnimationValues, curve \in Curves, duration \in Durations :
              AnimationNew(start, start, curve, duration) =>
                  (panicked' /\ animation' = None)
       /\ (animation' # None => animation'[1].start # animation'[1].end)]_vars

\* C8 witness: Animation::new was called with start = end for a spring curve and
\* aborted.
C8_Witness ==
    /\ last_call.op = "Animation::new"
    /\ new_args # None
    /\ new_args[1].start = new_args[1].end
    /\ new_args[1].curve.kind = "Spring"
    /\ panicked
    /\ animation = None

\* C9: the duration of a constructed animation, which is_finished compares the
\* elapsed time with, is the spring's settling duration for a Spring curve,
\* whatever duration was supplied, and the supplied duration for Simple and Cubic.
C9_SpringDurationOverrides ==
    (animation # None) =>
        LET anim == animation[1]
            supplied == new_args[1].duration
            threshold == IF anim.curve.kind = "Spring"
                         THEN anim.curve.spring.period * anim.curve.spring.cycles
                         ELSE supplied
        IN  /\ anim.duration = threshold
            /\ (last_call.op = "set_current_time" /\ last_call.t >= anim.started_at) =>
                   (last_call.is_finished <=> (last_call.t - anim.started_at >= threshold))

\* C9 witness: a spring animation constructed with a duration shorter than the
\* spring's settling duration is not finished once the supplied duration has
\* elapsed.
C9_Witness ==
    /\ animation # None
    /\ animation[1].curve.kind = "Spring"
    /\ new_args[1].duration > 0
    /\ new_args[1].duration < animation[1].duration
    /\ last_call.op = "set_current_time"
    /\ last_call.t - animation[1].started_at >= new_args[1].duration
    /\ ~last_call.is_finished

\* C11 (as claimed): value() equals start at elapsed = 0, both right after
\* construction and after set_current_time at the start time, for every curve; and
\* for Simple and Cubic curves value() after set_current_time at elapsed = duration
\* is curve.y(1) * (end - start) + start.
C11_StartAtZeroCurveEndAtDuration ==
    (animation # None) =>
        LET anim == animation[1]
            atStart == [nan |-> FALSE, num |-> anim.start * Scale]
            y1 == IF anim.curve.kind = "Simple" THEN EasingY(anim.curve.easing, Scale)
                  ELSE CubicY(anim.curve.cubic, Scale)
            atEnd == [nan |-> FALSE,
                      num |-> y1 * (anim.end - anim.start) + anim.start * Scale]
        IN  /\ last_call.op = "Animation::new" => anim.current_value = atStart
            /\ (last_call.op = "set_current_time" /\ last_call.t = anim.started_at)
                   => last_call.value = atStart
            /\ (last_call.op = "set_current_time"
                    /\ anim.curve.kind \in {"Simple", "Cubic"}
                    /\ last_call.t >= anim.started_at
                    /\ last_call.t - anim.started_at = anim.duration)
                   => last_call.value = atEnd

\* C21 (as claimed): over set_current_time calls with non-decreasing times on one
\* animation, once is_finished() is true it is true after every later call, and
\* for Simple and Cubic curves value() is the same after every later call; and the
\* animation changes through set_current_time only (value() and is_finished() are
\* reads).
C21_FinishedStaysAndValueSettles ==
    [][(animation # None) =>
          /\ \A t \in Times :
                 (/\ set_current_time(t)
                  /\ t >= animation[1].current_time
                  /\ IsFinished(animation[1]))
                     => /\ IsFinished(animation'[1])
                        /\ animation[1].curve.kind \in {"Simple", "Cubic"}
                               => Value(animation'[1]) = Value(animation[1])
          /\ (~ \E t \in Times : set_current_time(t)) => animation' = animation]_vars

\* ------------------------------------------------------------------ claims: WindowRulePattern

====
